---- MODULE Spec2Model ----
(***************************************************************************)
(* A model of the tracker client of src/src/scripts/main.js: option        *)
(* validation, the environment gate of create(), the transport send() and  *)
(* the record / updateRecord / action / updateAction lifecycle with its    *)
(* heartbeat interval and cooperative stop flag.                           *)
(*                                                                         *)
(* The page is a single-threaded event loop: every action below is one     *)
(* task of that loop (an API call made by the page, an interval callback,  *)
(* the settling of one fetch promise chain, a visibility change).          *)
(***************************************************************************)
EXTENDS Integers, Sequences, FiniteSets, Bags, TLC

(***************************************************************************)
(* Bounds of the model.                                                    *)
(***************************************************************************)
MaxSessions == 1    \* calls of record() / updateRecord() (stop handles)
MaxInFlight == 2    \* fetch() requests in flight at once

\* The page calls create() once, as detect() does.
InstanceIds == {1}
SessionIds == 1..MaxSessions

(***************************************************************************)
(* JavaScript values of the option fields, written as their source text.   *)
(***************************************************************************)
JsTrue == "true"
JsFalse == "false"
JsUndefined == "undefined"

\* Property read o.f of a JavaScript object o: undefined when f is absent.
Get(o, f) == IF f \in DOMAIN o THEN o[f] ELSE JsUndefined

EmptyObject == [f \in {} |-> JsUndefined]

validateTruthy(args) ==
    LET options == IF args = <<>> THEN EmptyObject ELSE args[1]
    IN  [detailed        |-> Get(options, "detailed") \notin {JsFalse, JsUndefined, "null"},
         ignoreLocalhost |-> Get(options, "ignoreLocalhost") # JsFalse,
         ignoreOwnVisits |-> Get(options, "ignoreOwnVisits") # JsFalse]

\* validate(options = {}): args is the argument list, <<>> or <<options>>.
validate(args) ==
    LET options == IF args = <<>> THEN EmptyObject ELSE args[1]
    IN  [detailed        |-> Get(options, "detailed") = JsTrue,
         ignoreLocalhost |-> Get(options, "ignoreLocalhost") # JsFalse,
         ignoreOwnVisits |-> Get(options, "ignoreOwnVisits") # JsFalse]

isLocalhost(h) ==
    \/ h = ""
    \/ h = "localhost"
    \/ h = "127.0.0.1"
    \/ h = "::1"

(***************************************************************************)
(* isBot: the regular expression /bot|crawler|spider|crawling/i tested on  *)
(* the user agent, a sequence of characters.                               *)
(***************************************************************************)
UpperCase == <<"A", "B", "C", "D", "E", "F", "G", "H", "I", "J", "K", "L", "M",
               "N", "O", "P", "Q", "R", "S", "T", "U", "V", "W", "X", "Y", "Z">>
LowerCase == <<"a", "b", "c", "d", "e", "f", "g", "h", "i", "j", "k", "l", "m",
               "n", "o", "p", "q", "r", "s", "t", "u", "v", "w", "x", "y", "z">>

ToLower(c) ==
    IF \E i \in DOMAIN UpperCase : UpperCase[i] = c
    THEN LowerCase[CHOOSE i \in DOMAIN UpperCase : UpperCase[i] = c]
    ELSE c

BotPatterns ==
    { <<"b", "o", "t">>,
      <<"c", "r", "a", "w", "l", "e", "r">>,
      <<"s", "p", "i", "d", "e", "r">>,
      <<"c", "r", "a", "w", "l", "i", "n", "g">> }

\* p occurs in s, letter case ignored (p is lower case).
ContainsIgnoreCase(s, p) ==
    \E i \in 1..(Len(s) - Len(p) + 1) :
        \A j \in 1..Len(p) : ToLower(s[i + j - 1]) = p[j]

isBot(ua) == \E p \in BotPatterns : ContainsIgnoreCase(ua, p)

FakeId == "88888888-8888-8888-8888-888888888888"

isFakeIdNever(id) == FALSE

isFakeId(id) == id = FakeId


(***************************************************************************)
(* The attribute collector and the four request bodies.                    *)
(***************************************************************************)
DefaultData == {"siteLocation", "siteReferrer", "source"}
DetailedData == {"siteLanguage", "screenWidth", "screenHeight", "screenColorDepth",
                 "deviceName", "deviceManufacturer", "osName", "osVersion",
                 "browserName", "browserVersion", "browserWidth", "browserHeight"}

\* attributes(detailed): the names of the fields collected.
attributes(detailed) == DefaultData \cup (IF detailed = TRUE THEN DetailedData ELSE {})

createRecordBody(domainId, input) ==
    [query |-> "createRecord", variables |-> [domainId |-> domainId, input |-> input]]

updateRecordBody(recordId) ==
    [query |-> "updateRecord", variables |-> [recordId |-> recordId]]

createActionBody(eventId, input) ==
    [query |-> "createAction", variables |-> [eventId |-> eventId, input |-> input]]

updateActionBody(actionId, input) ==
    [query |-> "updateAction", variables |-> [actionId |-> actionId, input |-> input]]

(***************************************************************************)
(* The inputs the page and the server may supply.                          *)
(***************************************************************************)
Hostnames == {"localhost", "example.com"}

Googlebot == <<"G", "o", "o", "g", "l", "e", "b", "o", "t">>
Spider == <<"S", "P", "I", "D", "E", "R">>
Browser == <<"M", "o", "z", "i", "l", "l", "a">>
UserAgents == {Googlebot, Spider, Browser}

\* Argument lists of create(server, options): options absent or an object.
OptionArgs ==
    { <<>>,
      << [ignoreLocalhost |-> JsFalse, ignoreOwnVisits |-> JsFalse, detailed |-> "1"] >> }

NormalId == "88888888-8888-8888-8888-888888888889"
ServerIds == {NormalId, FakeId}
DomainIds == {"domain"}
EventIds == {"event"}
ActionAttrs == {"key"}

\* What the server (or the network) answers to one fetch: net = the fetch
\* promise resolved, ok = response.ok, errors = json.errors != null, id =
\* the payload id of a create operation.
Failures ==
    { [net |-> FALSE, ok |-> FALSE, errors |-> FALSE, id |-> ""],
      [net |-> TRUE, ok |-> FALSE, errors |-> FALSE, id |-> ""],
      [net |-> TRUE, ok |-> TRUE, errors |-> TRUE, id |-> ""] }
CreateResponses ==
    Failures \cup { [net |-> TRUE, ok |-> TRUE, errors |-> FALSE, id |-> x] : x \in ServerIds }
UpdateResponses ==
    Failures \cup { [net |-> TRUE, ok |-> TRUE, errors |-> FALSE, id |-> ""] }

(***************************************************************************)
(* State.                                                                  *)
(***************************************************************************)
VARIABLES
    hostname,         \* location.hostname
    userAgent,        \* navigator.userAgent
    visibilityState,  \* document.visibilityState
    instances,        \* the objects create() returned
    sess,             \* the closures of the record() / updateRecord() calls
    net,              \* the fetch() requests in flight, a bag
    task              \* the task the event loop ran last, and what it did

vars == <<hostname, userAgent, visibilityState, instances, sess, net, task>>

Instances == DOMAIN instances
Sessions == DOMAIN sess

NoInstance ==
    [kind |-> "none",
     options |-> [detailed |-> FALSE, ignoreLocalhost |-> FALSE, ignoreOwnVisits |-> FALSE]]

NoSession ==
    [kind |-> "none", inst |-> 0, pc |-> "idle", isStopped |-> FALSE, recordId |-> "",
     intervals |-> 0, cleared |-> 0]

NoResponse == [net |-> FALSE, ok |-> FALSE, errors |-> FALSE, id |-> "none"]

NoRequest ==
    [inst |-> 0, sess |-> 0, body |-> [query |-> "none"], credentials |-> "none",
     next |-> [fn |-> "none", userNext |-> FALSE]]

\* A task: the operation run, on which instance / session / request, with
\* which response, and what it did: console.warn messages, console.error
\* calls, calls of the callback given to send(), ids passed to the caller's
\* own callback, calls of send(), errors left uncaught; arg is the argument
\* list of create() or the id given to updateRecord() / updateAction().
Task(op, i, s) ==
    [op |-> op, inst |-> i, sess |-> s, arg |-> <<>>, req |-> NoRequest, resp |-> NoResponse,
     warn |-> <<>>, errors |-> 0, next |-> 0, delivered |-> <<>>, sends |-> 0,
     uncaught |-> 0]

Init ==
    /\ hostname \in Hostnames
    /\ userAgent \in UserAgents
    /\ visibilityState = "visible"
    /\ instances = [i \in InstanceIds |-> NoInstance]
    /\ sess = [s \in SessionIds |-> NoSession]
    /\ net = EmptyBag
    /\ task = Task("idle", 0, 0)

isInBackground == visibilityState = "hidden"

\* The event loop is idle: the last task has returned.
Ready == task.op = "idle"

\* The running task returns to the event loop.
taskDone ==
    /\ task.op # "idle"
    /\ task' = Task("idle", 0, 0)
    /\ UNCHANGED <<hostname, userAgent, visibilityState, instances, sess, net>>

\* The next object create() allocates, the next closure a call allocates.
FreeInstance(i) ==
    /\ instances[i].kind = "none"
    /\ \A j \in Instances : j < i => instances[j].kind # "none"

FreeSession(s) ==
    /\ sess[s].pc = "idle"
    /\ \A t \in Sessions : t < s => sess[t].pc # "idle"

RealInstance(i) == instances[i].kind = "real"
FakeInstance(i) == instances[i].kind = "fake"

(***************************************************************************)
(* Transport.                                                              *)
(***************************************************************************)
\* The callback given to send(): none, or the closure of _record or _action,
\* which holds the caller's own callback (userNext: it is a function).
NoNext == [fn |-> "none", userNext |-> FALSE]
Closure(fn, userNext) == [fn |-> fn, userNext |-> userNext]

fetchWithCredentials(i, s, body, options, next) ==
    [inst |-> i, sess |-> s, body |-> body, credentials |-> "include", next |-> next]

\* The fetch() of send(): one request, with the credentials policy.
fetch(i, s, body, options, next) ==
    [inst |-> i, sess |-> s, body |-> body,
     credentials |-> IF options.ignoreOwnVisits THEN "omit" ELSE "include",
     next |-> next]

\* send(url, body, options, next): the requests in flight after the call.
send(rq, i, s, body, options, next) == rq (+) SetToBag({fetch(i, s, body, options, next)})

\* The requests in flight once the promise chain of r has settled.
settled(rq, r) == rq (-) SetToBag({r})

Requests == BagToSet(net)
InFlight == BagCardinality(net)

thenStatusUnchecked(resp) ==
    IF resp.net = FALSE THEN "rejected"
    ELSE "json"

\* First .then: a rejected fetch stays rejected, a non-ok status throws.
thenStatus(resp) ==
    IF resp.net = FALSE THEN "rejected"
    ELSE IF resp.ok = FALSE THEN "rejected"
    ELSE "json"

thenJsonUnchecked(st, resp, next) ==
    IF st = "rejected" THEN "rejected"
    ELSE IF next.fn # "none" THEN "next"
    ELSE "fulfilled"

\* Second .then: an error list throws, otherwise next(json) is called if given.
thenJson(st, resp, next) ==
    IF st = "rejected" THEN "rejected"
    ELSE IF resp.errors THEN "rejected"
    ELSE IF next.fn # "none" THEN "next"
    ELSE "fulfilled"

\* .catch: console.error(error).
catch(st) == IF st = "rejected" THEN "logged" ELSE st

\* The outcome of the promise chain of send(): "next", "fulfilled" or "logged"
\* ("rejected" would be an unhandled rejection).
settle(resp, next) == catch(thenJson(thenStatus(resp), resp, next))

\* The task that settles request r with resp.
Settled(op, r, resp) ==
    LET out == settle(resp, r.next)
    IN  [Task(op, r.inst, r.sess) EXCEPT
            !.req = r, !.resp = resp,
            !.next = IF out = "next" THEN 1 ELSE 0,
            !.errors = IF out = "logged" THEN 1 ELSE 0,
            !.uncaught = IF out = "rejected" THEN 1 ELSE 0]

(***************************************************************************)
(* create(server, options): the gate, then the real or the fake instance.  *)
(***************************************************************************)
LocalhostWarning == "Tracker ignores you because you are on localhost"
BotWarning == "Tracker ignores you because you are a bot"
OwnSiteWarning == "Tracker ignores you because this is your own site"

gateBotFirst(options, host, ua) ==
    IF isBot(ua) = TRUE
    THEN [kind |-> "fake", warn |-> <<BotWarning>>]
    ELSE IF options.ignoreLocalhost = TRUE /\ isLocalhost(host) = TRUE
    THEN [kind |-> "fake", warn |-> <<LocalhostWarning>>]
    ELSE [kind |-> "real", warn |-> <<>>]

\* Which instance create() returns and which warnings it logs.
gate(options, host, ua) ==
    IF options.ignoreLocalhost = TRUE /\ isLocalhost(host) = TRUE
    THEN [kind |-> "fake", warn |-> <<LocalhostWarning>>]
    ELSE IF isBot(ua) = TRUE
    THEN [kind |-> "fake", warn |-> <<BotWarning>>]
    ELSE [kind |-> "real", warn |-> <<>>]

create(i, args) ==
    /\ Ready
    /\ FreeInstance(i)
    /\ LET options == validate(args)
           g == gate(options, hostname, userAgent)
       IN  /\ instances' = [instances EXCEPT ![i] = [kind |-> g.kind, options |-> options]]
           /\ task' = [Task("create", i, 0) EXCEPT !.warn = g.warn, !.arg = <<args>>]
    /\ UNCHANGED <<hostname, userAgent, visibilityState, sess, net>>

(***************************************************************************)
(* The fake instance: record and updateRecord return { stop: noop },       *)
(* action and updateAction are noop.                                       *)
(***************************************************************************)
fakeHandleLive(i) ==
    [NoSession EXCEPT !.kind = "fake", !.inst = i, !.pc = "fake", !.intervals = 1]

fakeHandle(i) == [NoSession EXCEPT !.kind = "fake", !.inst = i, !.pc = "fake"]

fakeRecord(i, s) ==
    /\ Ready
    /\ FakeInstance(i)
    /\ FreeSession(s)
    /\ sess' = [sess EXCEPT ![s] = fakeHandle(i)]
    /\ task' = Task("record", i, s)
    /\ UNCHANGED <<hostname, userAgent, visibilityState, instances, net>>

fakeUpdateRecord(i, s) ==
    /\ Ready
    /\ FakeInstance(i)
    /\ FreeSession(s)
    /\ sess' = [sess EXCEPT ![s] = fakeHandle(i)]
    /\ task' = Task("updateRecord", i, s)
    /\ UNCHANGED <<hostname, userAgent, visibilityState, instances, net>>

fakeAction(i) ==
    /\ Ready
    /\ FakeInstance(i)
    /\ task' = Task("action", i, 0)
    /\ UNCHANGED <<hostname, userAgent, visibilityState, instances, sess, net>>

fakeUpdateAction(i) ==
    /\ Ready
    /\ FakeInstance(i)
    /\ task' = Task("updateAction", i, 0)
    /\ UNCHANGED <<hostname, userAgent, visibilityState, instances, sess, net>>

\* stop of a handle of the fake instance: noop.
noop(s) ==
    /\ Ready
    /\ sess[s].kind = "fake"
    /\ task' = Task("stop", sess[s].inst, s)
    /\ UNCHANGED <<hostname, userAgent, visibilityState, instances, sess, net>>

(***************************************************************************)
(* record(domainId, attrs = attributes(options.detailed), next)            *)
(***************************************************************************)
_record(i, s, domainId, hasNext) ==
    /\ Ready
    /\ RealInstance(i)
    /\ FreeSession(s)
    /\ InFlight < MaxInFlight
    /\ LET options == instances[i].options
           attrs == attributes(options.detailed)
       IN  net' = send(net, i, s, createRecordBody(domainId, attrs), options,
                       Closure("_record", hasNext))
    /\ sess' = [sess EXCEPT ![s] = [NoSession EXCEPT !.kind = "record", !.inst = i,
                                                      !.pc = "pending"]]
    /\ task' = [Task("record", i, s) EXCEPT !.sends = 1]
    /\ UNCHANGED <<hostname, userAgent, visibilityState, instances>>

recordCreatedUnlessStopped(c, resp) ==
    LET recordId == resp.id
    IN  IF isFakeId(recordId) = TRUE
        THEN [c EXCEPT !.pc = "ignored"]
        ELSE IF c.isStopped = TRUE
        THEN [c EXCEPT !.pc = "active", !.recordId = recordId]
        ELSE [c EXCEPT !.pc = "active", !.recordId = recordId, !.intervals = @ + 1]

recordCreatedTimerFirst(c, resp) ==
    LET recordId == resp.id
    IN  IF isFakeId(recordId) = TRUE
        THEN [c EXCEPT !.pc = "ignored", !.intervals = @ + 1]
        ELSE [c EXCEPT !.pc = "active", !.recordId = recordId, !.intervals = @ + 1]

\* The closure passed to send() by _record, run with the clean response:
\* the session after it.
recordCreated(c, resp) ==
    LET recordId == resp.id
    IN  IF isFakeId(recordId) = TRUE
        THEN [c EXCEPT !.pc = "ignored"]
        ELSE [c EXCEPT !.pc = "active", !.recordId = recordId, !.intervals = @ + 1]

createdDeliversSentinel(t, next, resp) ==
    IF next.userNext THEN [t EXCEPT !.delivered = <<resp.id>>]
    ELSE t

\* What the closures of _record and _action log and pass to the caller's
\* callback, run with the clean response.
created(t, next, resp) ==
    IF isFakeId(resp.id) = TRUE THEN [t EXCEPT !.warn = <<OwnSiteWarning>>]
    ELSE IF next.userNext THEN [t EXCEPT !.delivered = <<resp.id>>]
    ELSE t

\* The promise chain of a createRecord request settles with resp.
settleCreateRecord(r, resp) ==
    /\ Ready
    /\ r \in Requests
    /\ r.body.query = "createRecord"
    /\ LET s == r.sess
           t == Settled("settle", r, resp)
       IN  /\ sess' = [sess EXCEPT ![s] = IF t.next = 1 THEN recordCreated(@, resp)
                                          ELSE [@ EXCEPT !.pc = "failed"]]
           /\ task' = IF t.next = 1 THEN created(t, r.next, resp) ELSE t
    /\ net' = settled(net, r)
    /\ UNCHANGED <<hostname, userAgent, visibilityState, instances>>

stopShared(s) ==
    /\ Ready
    /\ sess[s].kind \in {"record", "updateRecord"}
    /\ sess' = [t \in DOMAIN sess |->
                  IF sess[t].kind \in {"record", "updateRecord"}
                  THEN [sess[t] EXCEPT !.isStopped = TRUE] ELSE sess[t]]
    /\ task' = Task("stop", sess[s].inst, s)
    /\ UNCHANGED <<hostname, userAgent, visibilityState, instances, net>>

\* stop of a handle of the real instance: isStopped = true.
stop(s) ==
    /\ Ready
    /\ sess[s].kind \in {"record", "updateRecord"}
    /\ sess' = [sess EXCEPT ![s].isStopped = TRUE]
    /\ task' = Task("stop", sess[s].inst, s)
    /\ UNCHANGED <<hostname, userAgent, visibilityState, instances, net>>

(***************************************************************************)
(* The interval callbacks.                                                 *)
(***************************************************************************)
recordIntervalBackgroundFirst(isStopped, background) ==
    IF background = TRUE THEN "skip"
    ELSE IF isStopped = TRUE THEN "clear"
    ELSE "send"

recordIntervalNoSend(isStopped, background) ==
    IF isStopped = TRUE THEN "clear"
    ELSE "skip"

recordIntervalClearHidden(isStopped, background) ==
    IF isStopped = TRUE THEN "clear"
    ELSE IF background = TRUE THEN "clear"
    ELSE "send"

\* What one firing of the callback of _record does: "clear", "skip" or "send".
recordInterval(isStopped, background) ==
    IF isStopped = TRUE THEN "clear"
    ELSE IF background = TRUE THEN "skip"
    ELSE "send"

clearIntervalRestart(c) == [c EXCEPT !.cleared = @ + 1]

\* The closure after clearInterval(interval).
clearInterval(c) == [c EXCEPT !.intervals = @ - 1, !.cleared = @ + 1]

recordTickSingleFlight(s) ==
    /\ Ready
    /\ sess[s].kind = "record"
    /\ sess[s].intervals > 0
    /\ LET what == recordInterval(sess[s].isStopped, isInBackground)
           i == sess[s].inst
       IN  /\ what = "send" => InFlight < MaxInFlight
           /\ what = "send" => \A r \in Requests : r.sess # s
           /\ sess' = [sess EXCEPT ![s] = IF what = "clear" THEN clearInterval(@) ELSE @]
           /\ net' = IF what = "send"
                     THEN send(net, i, s, updateRecordBody(sess[s].recordId),
                               instances[i].options, NoNext)
                     ELSE net
           /\ task' = [Task("tick", i, s) EXCEPT !.sends = IF what = "send" THEN 1 ELSE 0]
    /\ UNCHANGED <<hostname, userAgent, visibilityState, instances>>

recordTick(s) ==
    /\ Ready
    /\ sess[s].kind = "record"
    /\ sess[s].intervals > 0
    /\ LET what == recordInterval(sess[s].isStopped, isInBackground)
           i == sess[s].inst
       IN  /\ what = "send" => InFlight < MaxInFlight
           /\ sess' = [sess EXCEPT ![s] = IF what = "clear" THEN clearInterval(@) ELSE @]
           /\ net' = IF what = "send"
                     THEN send(net, i, s, updateRecordBody(sess[s].recordId),
                               instances[i].options, NoNext)
                     ELSE net
           /\ task' = [Task("tick", i, s) EXCEPT !.sends = IF what = "send" THEN 1 ELSE 0]
    /\ UNCHANGED <<hostname, userAgent, visibilityState, instances>>

(***************************************************************************)
(* updateRecord(recordId)                                                  *)
(***************************************************************************)
_updateRecordTimerAnyway(i, s, recordId) ==
    /\ Ready
    /\ RealInstance(i)
    /\ FreeSession(s)
    /\ LET c == [NoSession EXCEPT !.kind = "updateRecord", !.inst = i]
       IN  IF isFakeId(recordId) = TRUE
           THEN /\ sess' = [sess EXCEPT ![s] = [c EXCEPT !.pc = "ignored",
                                                         !.intervals = @ + 1]]
                /\ task' = [Task("updateRecord", i, s) EXCEPT !.warn = <<OwnSiteWarning>>,
                                                               !.arg = <<recordId>>]
           ELSE /\ sess' = [sess EXCEPT ![s] = [c EXCEPT !.pc = "active",
                                                         !.recordId = recordId,
                                                         !.intervals = @ + 1]]
                /\ task' = [Task("updateRecord", i, s) EXCEPT !.arg = <<recordId>>]
    /\ UNCHANGED <<hostname, userAgent, visibilityState, instances, net>>

_updateRecord(i, s, recordId) ==
    /\ Ready
    /\ RealInstance(i)
    /\ FreeSession(s)
    /\ LET c == [NoSession EXCEPT !.kind = "updateRecord", !.inst = i]
       IN  IF isFakeId(recordId) = TRUE
           THEN /\ sess' = [sess EXCEPT ![s] = [c EXCEPT !.pc = "ignored"]]
                /\ task' = [Task("updateRecord", i, s) EXCEPT !.warn = <<OwnSiteWarning>>,
                                                               !.arg = <<recordId>>]
           ELSE /\ sess' = [sess EXCEPT ![s] = [c EXCEPT !.pc = "active",
                                                         !.recordId = recordId,
                                                         !.intervals = @ + 1]]
                /\ task' = [Task("updateRecord", i, s) EXCEPT !.arg = <<recordId>>]
    /\ UNCHANGED <<hostname, userAgent, visibilityState, instances, net>>

updateRecordIntervalSendHidden(isStopped, background) ==
    IF isStopped = TRUE THEN "clear"
    ELSE "send"

updateRecordIntervalNoStop(isStopped, background) ==
    IF background = TRUE THEN "skip"
    ELSE "send"

\* What one firing of the callback of _updateRecord does.
updateRecordInterval(isStopped, background) ==
    IF isStopped = TRUE THEN "clear"
    ELSE IF background = TRUE THEN "skip"
    ELSE "send"

updateRecordTick(s) ==
    /\ Ready
    /\ sess[s].kind = "updateRecord"
    /\ sess[s].intervals > 0
    /\ LET what == updateRecordInterval(sess[s].isStopped, isInBackground)
           i == sess[s].inst
       IN  /\ what = "send" => InFlight < MaxInFlight
           /\ sess' = [sess EXCEPT ![s] = IF what = "clear" THEN clearInterval(@) ELSE @]
           /\ net' = IF what = "send"
                     THEN send(net, i, s, updateRecordBody(sess[s].recordId),
                               instances[i].options, NoNext)
                     ELSE net
           /\ task' = [Task("tick", i, s) EXCEPT !.sends = IF what = "send" THEN 1 ELSE 0]
    /\ UNCHANGED <<hostname, userAgent, visibilityState, instances>>

(***************************************************************************)
(* action(eventId, attrs, next) and updateAction(actionId, attrs)          *)
(***************************************************************************)
_action(i, eventId, attrs, hasNext) ==
    /\ Ready
    /\ RealInstance(i)
    /\ InFlight < MaxInFlight
    /\ net' = send(net, i, 0, createActionBody(eventId, attrs),
                   instances[i].options, Closure("_action", hasNext))
    /\ task' = [Task("action", i, 0) EXCEPT !.sends = 1]
    /\ UNCHANGED <<hostname, userAgent, visibilityState, instances, sess>>

\* The promise chain of a createAction request settles with resp.
settleCreateAction(r, resp) ==
    /\ Ready
    /\ r \in Requests
    /\ r.body.query = "createAction"
    /\ LET t == Settled("settle", r, resp)
       IN  task' = IF t.next = 1 THEN created(t, r.next, resp) ELSE t
    /\ net' = settled(net, r)
    /\ UNCHANGED <<hostname, userAgent, visibilityState, instances, sess>>

_updateAction(i, actionId, attrs) ==
    /\ Ready
    /\ RealInstance(i)
    /\ IF isFakeId(actionId) = TRUE
       THEN /\ task' = [Task("updateAction", i, 0) EXCEPT !.warn = <<OwnSiteWarning>>,
                                                           !.arg = <<actionId>>]
            /\ net' = net
       ELSE /\ InFlight < MaxInFlight
            /\ net' = send(net, i, 0, updateActionBody(actionId, attrs),
                           instances[i].options, NoNext)
            /\ task' = [Task("updateAction", i, 0) EXCEPT !.sends = 1, !.arg = <<actionId>>]
    /\ UNCHANGED <<hostname, userAgent, visibilityState, instances, sess>>

settleUpdateRetry(r, resp) ==
    /\ Ready
    /\ r \in Requests
    /\ r.body.query \in {"updateRecord", "updateAction"}
    /\ task' = Settled("settle", r, resp)
    /\ net' = IF Settled("settle", r, resp).errors = 1 THEN net ELSE settled(net, r)
    /\ UNCHANGED <<hostname, userAgent, visibilityState, instances, sess>>

\* The promise chain of an updateRecord or updateAction request settles.
settleUpdate(r, resp) ==
    /\ Ready
    /\ r \in Requests
    /\ r.body.query \in {"updateRecord", "updateAction"}
    /\ task' = Settled("settle", r, resp)
    /\ net' = settled(net, r)
    /\ UNCHANGED <<hostname, userAgent, visibilityState, instances, sess>>

\* The user hides or shows the page.
visibilitychange ==
    /\ Ready
    /\ visibilityState' = IF visibilityState = "hidden" THEN "visible" ELSE "hidden"
    /\ task' = Task("visibilitychange", 0, 0)
    /\ UNCHANGED <<hostname, userAgent, instances, sess, net>>

Next ==
    \/ \E i \in Instances, args \in OptionArgs : create(i, args)
    \/ \E i \in Instances, s \in Sessions : fakeRecord(i, s)
    \/ \E i \in Instances, s \in Sessions : fakeUpdateRecord(i, s)
    \/ \E i \in Instances : fakeAction(i)
    \/ \E i \in Instances : fakeUpdateAction(i)
    \/ \E s \in Sessions : noop(s)
    \/ \E i \in Instances, s \in Sessions, d \in DomainIds, n \in BOOLEAN : _record(i, s, d, n)
    \/ \E r \in Requests, resp \in CreateResponses : settleCreateRecord(r, resp)
    \/ \E s \in Sessions : stop(s)
    \/ \E s \in Sessions : recordTick(s)
    \/ \E i \in Instances, s \in Sessions, id \in ServerIds : _updateRecord(i, s, id)
    \/ \E s \in Sessions : updateRecordTick(s)
    \/ \E i \in Instances, e \in EventIds, a \in ActionAttrs, n \in BOOLEAN : _action(i, e, a, n)
    \/ \E r \in Requests, resp \in CreateResponses : settleCreateAction(r, resp)
    \/ \E i \in Instances, id \in ServerIds, a \in ActionAttrs : _updateAction(i, id, a)
    \/ \E r \in Requests, resp \in UpdateResponses : settleUpdate(r, resp)
    \/ visibilitychange
    \/ taskDone

Spec == Init /\ [][Next]_vars

\* A timer that was not cancelled keeps firing, and every task returns.
Fairness ==
    /\ WF_vars(taskDone)
    /\ \A s \in SessionIds : SF_vars(recordTick(s)) /\ SF_vars(updateRecordTick(s))

SpecFair == Spec /\ Fairness

(***************************************************************************)
(* Two instances and two sessions: the page calls create() up to twice and *)
(* record() / updateRecord() up to twice, on either instance.              *)
(***************************************************************************)
PairIds == {1, 2}

InitPair ==
    /\ hostname \in Hostnames
    /\ userAgent \in UserAgents
    /\ visibilityState = "visible"
    /\ instances = [i \in PairIds |-> NoInstance]
    /\ sess = [s \in PairIds |-> NoSession]
    /\ net = EmptyBag
    /\ task = Task("idle", 0, 0)

NextPair ==
    \/ \E i \in Instances, args \in OptionArgs : create(i, args)
    \/ \E i \in Instances, s \in Sessions, d \in DomainIds, n \in BOOLEAN : _record(i, s, d, n)
    \/ \E r \in Requests, resp \in CreateResponses : settleCreateRecord(r, resp)
    \/ \E s \in Sessions : stop(s)
    \/ \E s \in Sessions : recordTick(s)
    \/ \E i \in Instances, s \in Sessions, id \in ServerIds : _updateRecord(i, s, id)
    \/ \E s \in Sessions : updateRecordTick(s)
    \/ \E r \in Requests, resp \in UpdateResponses : settleUpdate(r, resp)
    \/ visibilitychange
    \/ taskDone

SpecPair == InitPair /\ [][NextPair]_vars

(***************************************************************************)
(* create() called with every options object over the three option fields  *)
(* and one unknown field, each absent or holding a boolean, undefined,     *)
(* null, a number or a string.                                             *)
(***************************************************************************)
JsValues == {JsTrue, JsFalse, JsUndefined, "null", "1", "'false'"}
OptionFields == {"detailed", "ignoreLocalhost", "ignoreOwnVisits", "debug"}
ValidateArgs ==
    {<<>>} \cup { <<o>> : o \in UNION { [D -> JsValues] : D \in SUBSET OptionFields } }

NextValidate ==
    \/ \E i \in Instances, args \in ValidateArgs : create(i, args)
    \/ taskDone

SpecValidate == Init /\ [][NextValidate]_vars



(***************************************************************************)
(* Vocabulary of the properties.                                           *)
(***************************************************************************)
\* The step issues a request with query q for session s.
IssuedFor(s, q) ==
    \E r \in BagToSet(net') :
        /\ r.sess = s
        /\ r.body.query = q
        /\ CopiesIn(r, net') > CopiesIn(r, net)

\* The step issues exactly the one request r.
IssuesOnly(r) == net' = net (+) SetToBag({r})

\* The step is the task op run for session s.
Ran(op, s) == task'.op = op /\ task'.sess = s

RealSessions == {s \in Sessions : sess[s].kind \in {"record", "updateRecord"}}
RecordSessions == {s \in Sessions : sess[s].kind = "record"}

Clean(resp) == resp.net /\ resp.ok /\ ~resp.errors

\* The heartbeat request of session s.
Heartbeat(s) ==
    [inst |-> sess[s].inst, sess |-> s,
     body |-> [query |-> "updateRecord", variables |-> [recordId |-> sess[s].recordId]],
     credentials |-> IF instances[sess[s].inst].options.ignoreOwnVisits THEN "omit"
                     ELSE "include",
     next |-> NoNext]

\* The states of the session state machine; Stopped is entered by stop().
Status(s) ==
    IF sess[s].pc = "idle" THEN "Idle"
    ELSE IF sess[s].isStopped THEN "Stopped"
    ELSE IF sess[s].pc = "pending" THEN "Pending"
    ELSE IF sess[s].pc = "active" THEN "Active"
    ELSE IF sess[s].pc = "ignored" THEN "Ignored"
    ELSE IF sess[s].pc = "failed" THEN "Failed"
    ELSE "Inert"

(***************************************************************************)
(* C1: once stop() has been called on a handle of record() or              *)
(* updateRecord(), the stop flag stays set and no updateRecord request is  *)
(* issued for that session again, whenever stop() was called.              *)
(***************************************************************************)
C1_NoHeartbeatAfterStop ==
    [][\A s \in Sessions :
          /\ (Ran("stop", s) /\ s \in RealSessions) => sess'[s].isStopped
          /\ sess[s].isStopped => (sess'[s].isStopped /\ ~IssuedFor(s, "updateRecord"))]_vars

\* A tick fired, page visible, on a stopped session.
C1_Witness ==
    /\ task.op = "tick"
    /\ visibilityState = "visible"
    /\ sess[task.sess].isStopped
    /\ sess[task.sess].recordId = NormalId

(***************************************************************************)
(* C2: record() on a real instance issues exactly one createRecord         *)
(* request and no other step issues one for the session; when it succeeds  *)
(* with a normal id the session keeps that id, every tick of a visible,    *)
(* non-stopped session issues exactly one updateRecord request with that   *)
(* id, and only ticks issue updateRecord requests.                         *)
(***************************************************************************)
C2_OneCreateThenOneUpdatePerTick ==
    [][\A s \in Sessions :
          /\ (Ran("record", s) /\ RealInstance(task'.inst)) =>
                /\ \E r \in BagToSet(net') :
                      /\ r.sess = s /\ r.body.query = "createRecord"
                      /\ IssuesOnly(r)
          /\ IssuedFor(s, "createRecord") => (Ran("record", s) /\ sess[s].pc = "idle")
          /\ (Ran("settle", s) /\ task'.req.body.query = "createRecord"
                /\ Clean(task'.resp) /\ task'.resp.id = NormalId) =>
                (sess'[s].pc = "active" /\ sess'[s].recordId = NormalId)
          /\ (s \in RecordSessions /\ sess[s].pc = "active") =>
                sess'[s].recordId = sess[s].recordId
          /\ (s \in RecordSessions /\ Ran("tick", s) /\ ~sess[s].isStopped
                /\ visibilityState = "visible") => IssuesOnly(Heartbeat(s))
          /\ (s \in RecordSessions /\ IssuedFor(s, "updateRecord")) => Ran("tick", s)]_vars

\* A tick of a session made by record() has just sent its heartbeat.
C2_Witness ==
    /\ task.op = "tick"
    /\ task.sends = 1
    /\ sess[task.sess].kind = "record"
    /\ BagIn(Heartbeat(task.sess), net)

(***************************************************************************)
(* C3: when the createRecord response carries the sentinel id the session  *)
(* becomes Ignored and stays so: it never has a timer, no tick of it       *)
(* fires and no updateRecord request is issued for it.                     *)
(***************************************************************************)
C3_SentinelIsIgnored ==
    [][\A s \in Sessions :
          /\ (Ran("settle", s) /\ task'.req.body.query = "createRecord"
                /\ Clean(task'.resp) /\ task'.resp.id = FakeId) =>
                (sess'[s].pc = "ignored" /\ sess'[s].intervals = 0 /\ sess'[s].cleared = 0)
          /\ (s \in RecordSessions /\ sess[s].pc = "ignored") =>
                /\ sess'[s].pc = "ignored"
                /\ sess'[s].intervals = 0 /\ sess'[s].cleared = 0
                /\ ~Ran("tick", s)
                /\ ~IssuedFor(s, "updateRecord")]_vars

\* A createRecord request has just settled with the sentinel id.
C3_Witness ==
    /\ task.op = "settle"
    /\ task.req.body.query = "createRecord"
    /\ task.resp.id = FakeId
    /\ task.warn = <<OwnSiteWarning>>
    /\ sess[task.sess].pc = "ignored"

(***************************************************************************)
(* C4: for an active, non-stopped session a tick that fires while the page *)
(* is hidden issues no request and leaves the timer alone; a tick that     *)
(* fires while the page is visible issues an updateRecord request.         *)
(***************************************************************************)
C4_BackgroundSkip ==
    [][\A s \in Sessions :
          (Ran("tick", s) /\ ~sess[s].isStopped) =>
              IF visibilityState = "hidden"
              THEN net' = net /\ sess' = sess
              ELSE IssuedFor(s, "updateRecord") /\ sess' = sess]_vars

\* A tick has just been skipped in the background; the timer is still there.
C4_Witness ==
    /\ task.op = "tick"
    /\ task.sends = 0
    /\ visibilityState = "hidden"
    /\ ~sess[task.sess].isStopped
    /\ sess[task.sess].intervals = 1

(***************************************************************************)
(* C5: nothing done with the fake instance issues a request or creates a   *)
(* timer, and stop() of a handle it returned changes nothing.              *)
(***************************************************************************)
C5_FakeInstanceIsInert ==
    /\ [](\A r \in Requests : RealInstance(r.inst))
    /\ [](\A s \in Sessions :
             (sess[s].inst \in Instances /\ FakeInstance(sess[s].inst)) =>
                 /\ sess[s].intervals = 0 /\ sess[s].cleared = 0
                 /\ ~sess[s].isStopped)
    /\ [][(task'.inst \in Instances /\ FakeInstance(task'.inst)) =>
             /\ net' = net
             /\ task'.sends = 0 /\ task'.uncaught = 0 /\ task'.errors = 0
             /\ task'.op = "stop" => sess' = sess]_vars

\* stop() has just been called on a handle of the fake instance.
C5_Witness ==
    /\ task.op = "stop"
    /\ sess[task.sess].kind = "fake"
    /\ FakeInstance(task.inst)

(***************************************************************************)
(* C6: create() returns the fake instance exactly when (ignoreLocalhost    *)
(* and the host is a localhost) or the user agent is a bot, then logs one  *)
(* warning (the localhost one when both hold), and otherwise returns a     *)
(* real instance and logs nothing; it issues no request.                   *)
(***************************************************************************)
LocalHosts == {"", "localhost", "127.0.0.1", "::1"}
BotAgents == {Googlebot, Spider}

C6_Gate ==
    [][\A i \in Instances :
          (task'.op = "create" /\ task'.inst = i) =>
              LET local == instances'[i].options.ignoreLocalhost /\ hostname \in LocalHosts
                  bot == userAgent \in BotAgents
              IN  /\ instances'[i].kind = (IF local \/ bot THEN "fake" ELSE "real")
                  /\ task'.warn = (IF local THEN <<LocalhostWarning>>
                                   ELSE IF bot THEN <<BotWarning>>
                                   ELSE <<>>)
                  /\ net' = net
                  /\ task'.sends = 0]_vars

\* create() on localhost with a bot's user agent: one warning, the localhost one.
C6_Witness ==
    /\ task.op = "create"
    /\ hostname = "localhost"
    /\ userAgent = Googlebot
    /\ instances[task.inst].options.ignoreLocalhost
    /\ instances[task.inst].kind = "fake"
    /\ task.warn = <<LocalhostWarning>>


(***************************************************************************)
(* C7: a session of record() has no timer and no updateRecord request      *)
(* while its createRecord request is in flight; when that request fails    *)
(* (network failure, non-success status or error list) the session never   *)
(* gets a timer and no updateRecord request is ever issued for it.         *)
(***************************************************************************)
CreateInFlight(s) == \E r \in Requests : r.sess = s /\ r.body.query = "createRecord"

C7_NoHeartbeatBeforeCreate ==
    /\ [](\A s \in RecordSessions :
             /\ CreateInFlight(s) <=> sess[s].pc = "pending"
             /\ sess[s].pc \in {"pending", "failed"} =>
                   /\ sess[s].intervals = 0 /\ sess[s].cleared = 0
                   /\ \A r \in Requests : r.sess = s => r.body.query = "createRecord")
    /\ [][\A s \in Sessions :
             /\ (Ran("settle", s) /\ task'.req.body.query = "createRecord"
                   /\ ~Clean(task'.resp)) => sess'[s].pc = "failed"
             /\ (s \in RecordSessions /\ sess[s].pc \in {"pending", "failed"}) =>
                   (~Ran("tick", s) /\ ~IssuedFor(s, "updateRecord"))
             /\ (s \in RecordSessions /\ sess[s].pc = "failed") => sess'[s].pc = "failed"]_vars

\* A createRecord request has just failed with an error list.
C7_Witness ==
    /\ task.op = "settle"
    /\ task.req.body.query = "createRecord"
    /\ task.resp.errors
    /\ sess[task.sess].pc = "failed"

(***************************************************************************)
(* C8 as stated: a timer exists only while the session is Active, not      *)
(* while it is Idle, Pending, Ignored or Stopped.                          *)
(***************************************************************************)
C8_TimerOnlyWhileActive ==
    \A s \in Sessions : sess[s].intervals > 0 => Status(s) = "Active"

(***************************************************************************)
(* C8 amended: a timer exists only for a session that has become active    *)
(* (never while Idle, Pending, Ignored or after a failed create); stop()   *)
(* leaves it in place, and the first tick after stop() cancels it.         *)
(***************************************************************************)
C8_TimerOnlyOnceActive ==
    /\ [](\A s \in Sessions : sess[s].intervals > 0 => sess[s].pc = "active")
    /\ [][\A s \in Sessions :
             /\ Ran("stop", s) => sess'[s].intervals = sess[s].intervals
             /\ (Ran("tick", s) /\ sess[s].isStopped) => sess'[s].intervals = 0]_vars

\* A stopped session whose timer is still there.
C8_Witness ==
    \E s \in Sessions : Status(s) = "Stopped" /\ sess[s].intervals = 1 /\ task.op = "stop"

(***************************************************************************)
(* C9: a session owns at most one live timer, and a timer that was         *)
(* cancelled is never replaced.                                            *)
(***************************************************************************)
C9_AtMostOneTimer ==
    \A s \in Sessions :
        /\ sess[s].intervals <= 1
        /\ sess[s].cleared <= 1
        /\ sess[s].cleared = 1 => sess[s].intervals = 0

\* A session whose timer was cancelled.
C9_Witness ==
    \E s \in Sessions : sess[s].cleared = 1 /\ sess[s].intervals = 0

(***************************************************************************)
(* C10: a call of send() issues exactly one request and the settling of a  *)
(* request issues none; the callback given to send() is invoked at most    *)
(* once and only on a success status without error list; on a failure the  *)
(* error is logged, the callback is not invoked and nothing is left        *)
(* uncaught.                                                               *)
(***************************************************************************)
C10_SendOnceNoRetry ==
    [][/\ task'.sends \in {0, 1}
       /\ task'.op # "settle" => BagCardinality(net') = BagCardinality(net) + task'.sends
       /\ task'.op = "settle" =>
             /\ BagIn(task'.req, net)
             /\ net' (+) SetToBag({task'.req}) = net
             /\ task'.sends = 0
             /\ task'.next \in {0, 1}
             /\ task'.next = 1 => Clean(task'.resp)
             /\ ~Clean(task'.resp) => (task'.errors = 1 /\ task'.next = 0)
             /\ task'.delivered # <<>> => task'.next = 1
             /\ task'.uncaught = 0]_vars

\* A request with a callback has just settled with a non-success status.
C10_Witness ==
    /\ task.op = "settle"
    /\ task.req.next.fn # "none"
    /\ task.resp.net /\ ~task.resp.ok
    /\ task.errors = 1

(***************************************************************************)
(* C11: on a real instance updateRecord(sentinel) logs the ignored-visitor *)
(* warning, creates no timer and issues no request, and the session it     *)
(* returns never ticks and never issues a request; stop() of its handle    *)
(* changes nothing but the flag, which nothing reads afterwards;           *)
(* updateAction(sentinel, attrs) logs the warning and issues no request.   *)
(***************************************************************************)
Queries == {"createRecord", "updateRecord", "createAction", "updateAction"}

SameButFlag(c, d) == [c EXCEPT !.isStopped = FALSE] = [d EXCEPT !.isStopped = FALSE]

C11_SentinelCallsAreInert ==
    /\ [][\A s \in Sessions :
             /\ (Ran("updateRecord", s) /\ RealInstance(task'.inst)
                   /\ task'.arg = <<FakeId>>) =>
                   /\ net' = net /\ task'.sends = 0
                   /\ sess'[s].pc = "ignored"
                   /\ sess'[s].intervals = 0 /\ sess'[s].cleared = 0
                   /\ task'.warn = <<OwnSiteWarning>>
             /\ (sess[s].kind = "updateRecord" /\ sess[s].pc = "ignored") =>
                   /\ SameButFlag(sess'[s], sess[s])
                   /\ sess'[s].intervals = 0 /\ sess'[s].cleared = 0
                   /\ ~Ran("tick", s)
                   /\ \A q \in Queries : ~IssuedFor(s, q)
                   /\ Ran("stop", s) => net' = net]_vars
    /\ [][(task'.op = "updateAction" /\ RealInstance(task'.inst)
             /\ task'.arg = <<FakeId>>) =>
             /\ net' = net /\ task'.sends = 0
             /\ sess' = sess
             /\ task'.warn = <<OwnSiteWarning>>]_vars

\* stop() has just been called on the handle updateRecord(sentinel) returned.
C11_Witness ==
    /\ task.op = "stop"
    /\ sess[task.sess].kind = "updateRecord"
    /\ sess[task.sess].pc = "ignored"
    /\ sess[task.sess].isStopped
    /\ sess[task.sess].intervals = 0

(***************************************************************************)
(* C12: updateRecord(recordId) with a normal id issues no request and      *)
(* leaves the session Active with its timer running and the id stored; no  *)
(* createRecord request is ever issued for such a session; a tick of it    *)
(* does what the interval callback of record() does with the same stop     *)
(* flag, visibility and id (cancel when stopped, else skip when hidden,    *)
(* else one updateRecord), and stop() only sets the flag, as for record(). *)
(***************************************************************************)
C12_UpdateRecordResumes ==
    [][\A s \in Sessions :
          /\ (Ran("updateRecord", s) /\ RealInstance(task'.inst)
                /\ task'.arg # <<FakeId>>) =>
                /\ net' = net /\ task'.sends = 0 /\ task'.warn = <<>>
                /\ Status(s)' = "Active"
                /\ sess'[s].intervals = 1 /\ sess'[s].cleared = 0
                /\ <<sess'[s].recordId>> = task'.arg
          /\ sess'[s].kind = "updateRecord" =>
                \A q \in Queries \ {"updateRecord"} : ~IssuedFor(s, q)
          /\ (sess[s].kind = "updateRecord" /\ Ran("tick", s)) =>
                LET what == recordInterval(sess[s].isStopped, isInBackground)
                IN  /\ sess[s].intervals > 0
                    /\ sess'[s] = IF what = "clear" THEN clearInterval(sess[s]) ELSE sess[s]
                    /\ net' = IF what = "send" THEN net (+) SetToBag({Heartbeat(s)}) ELSE net
          /\ (s \in RealSessions /\ Ran("stop", s)) =>
                /\ sess'[s] = [sess[s] EXCEPT !.isStopped = TRUE]
                /\ net' = net]_vars

\* A tick of a session made by updateRecord() has just sent its heartbeat.
C12_Witness ==
    /\ task.op = "tick"
    /\ task.sends = 1
    /\ sess[task.sess].kind = "updateRecord"
    /\ sess[task.sess].recordId = NormalId
    /\ BagIn(Heartbeat(task.sess), net)

(***************************************************************************)
(* C13: action() on a real instance issues exactly one createAction        *)
(* request and nothing else issues one; neither the call nor the settling  *)
(* of its request touches any session or timer; when the request settles,  *)
(* onCreated is called, once and with the returned id, exactly when the    *)
(* response is a success whose id is not the sentinel (and onCreated was   *)
(* given); with the sentinel id the warning is logged instead.             *)
(***************************************************************************)
C13_ActionOneShot ==
    [][/\ (task'.op = "action" /\ RealInstance(task'.inst)) =>
             /\ \E r \in BagToSet(net') :
                   /\ r.body.query = "createAction"
                   /\ IssuesOnly(r)
             /\ sess' = sess
             /\ task'.delivered = <<>>
       /\ (\E r \in BagToSet(net') :
              r.body.query = "createAction" /\ CopiesIn(r, net') > CopiesIn(r, net)) =>
             task'.op = "action"
       /\ (task'.op = "settle" /\ task'.req.body.query = "createAction") =>
             LET resp == task'.resp
                 success == Clean(resp)
             IN  /\ sess' = sess
                 /\ net' (+) SetToBag({task'.req}) = net
                 /\ task'.delivered =
                       IF success /\ resp.id # FakeId /\ task'.req.next.userNext
                       THEN <<resp.id>> ELSE <<>>
                 /\ task'.warn = IF success /\ resp.id = FakeId
                                 THEN <<OwnSiteWarning>> ELSE <<>>]_vars

\* onCreated has just been called with the id of the new action.
C13_Witness ==
    /\ task.op = "settle"
    /\ task.req.body.query = "createAction"
    /\ task.req.next.userNext
    /\ task.delivered = <<NormalId>>

(***************************************************************************)
(* C14: every request in flight carries no credentials when the validated  *)
(* ignoreOwnVisits option of its instance is true and carries them         *)
(* otherwise; the options of an instance are those validated by create()   *)
(* and never change afterwards.                                            *)
(***************************************************************************)
Policy(i) == IF instances[i].options.ignoreOwnVisits THEN "omit" ELSE "include"

C14_CredentialsPolicy ==
    /\ [](\A r \in Requests :
             /\ r.inst \in Instances /\ RealInstance(r.inst)
             /\ r.credentials = Policy(r.inst))
    /\ [][\A i \in Instances :
             /\ instances[i].kind # "none" => instances'[i] = instances[i]
             /\ (task'.op = "create" /\ task'.inst = i) =>
                   LET args == task'.arg[1]
                       given == args # <<>> /\ "ignoreOwnVisits" \in DOMAIN args[1]
                   IN  instances'[i].options.ignoreOwnVisits =
                          ~(given /\ args[1].ignoreOwnVisits = JsFalse)
             /\ \A r \in BagToSet(net') :
                   (r.inst = i /\ CopiesIn(r, net') > CopiesIn(r, net)) =>
                       r.credentials = Policy(i)]_vars

\* A heartbeat and an updateAction request are in flight with credentials
\* included, on an instance created with ignoreOwnVisits: false.
C14_Witness ==
    /\ \E r \in Requests : r.body.query = "updateRecord" /\ r.credentials = "include"
    /\ \E r \in Requests : r.body.query = "updateAction" /\ r.credentials = "include"
    /\ \A i \in Instances : ~instances[i].options.ignoreOwnVisits

(***************************************************************************)
(* C15: for every options argument (absent, partial, with unknown fields   *)
(* or with non-boolean values) the validated options have exactly the      *)
(* fields detailed, ignoreLocalhost and ignoreOwnVisits; detailed is true  *)
(* only when the input's detailed is the boolean true, and each of the     *)
(* other two is false only when the input's field is the boolean false.    *)
(***************************************************************************)
C15_ValidateDefaults ==
    [][\A i \in Instances :
          (task'.op = "create" /\ task'.inst = i) =>
              LET args == task'.arg[1]
                  Has(f, v) == args # <<>> /\ f \in DOMAIN args[1] /\ args[1][f] = v
                  o == instances'[i].options
              IN  /\ DOMAIN o = {"detailed", "ignoreLocalhost", "ignoreOwnVisits"}
                  /\ o.detailed = Has("detailed", JsTrue)
                  /\ o.ignoreLocalhost = ~Has("ignoreLocalhost", JsFalse)
                  /\ o.ignoreOwnVisits = ~Has("ignoreOwnVisits", JsFalse)]_vars

\* create() has just validated an object with an unknown field, a number
\* for detailed, the boolean false for ignoreLocalhost, null for the third.
C15_Witness ==
    /\ task.op = "create"
    /\ task.arg = << << [detailed |-> "1", ignoreLocalhost |-> JsFalse,
                        ignoreOwnVisits |-> "null", debug |-> JsTrue] >> >>
    /\ instances[task.inst].options =
          [detailed |-> FALSE, ignoreLocalhost |-> FALSE, ignoreOwnVisits |-> TRUE]

(***************************************************************************)
(* C16: a tick of a stopped session cancels the timer and issues no        *)
(* request, whether the page is visible or hidden; once the timer is       *)
(* cancelled no tick of the session fires again, so at most one tick fires *)
(* after stop(); and, the timer firing as long as it exists, a stopped     *)
(* session's timer is eventually cancelled and stays cancelled.            *)
(***************************************************************************)
C16_StopTakesEffectAtNextTick ==
    /\ [][\A s \in Sessions :
             /\ (Ran("tick", s) /\ sess[s].isStopped) =>
                   /\ sess[s].intervals = 1
                   /\ sess'[s].intervals = 0 /\ sess'[s].cleared = 1
                   /\ net' = net /\ task'.sends = 0
             /\ sess[s].cleared = 1 =>
                   /\ ~Ran("tick", s)
                   /\ sess'[s].intervals = 0 /\ sess'[s].cleared = 1]_vars
    /\ \A s \in SessionIds :
          [](sess[s].isStopped /\ sess[s].intervals > 0 => <>[](sess[s].intervals = 0))

\* The first tick after stop() has just cancelled the timer, the page hidden.
C16_Witness ==
    /\ task.op = "tick"
    /\ visibilityState = "hidden"
    /\ sess[task.sess].isStopped
    /\ sess[task.sess].intervals = 0
    /\ sess[task.sess].cleared = 1

(***************************************************************************)
(* C17: the timer of a session of record() can fire whenever the event     *)
(* loop is idle, whatever requests are still unanswered (up to the bound   *)
(* on requests in flight), and a tick of a visible, non-stopped session    *)
(* adds one more updateRecord request to those of the session already in   *)
(* flight; the witness is a state with two of them in flight at once.      *)
(***************************************************************************)
C17_HeartbeatsOverlap ==
    /\ [](\A s \in Sessions :
             (sess[s].kind = "record" /\ sess[s].intervals > 0 /\ Ready
                 /\ InFlight < MaxInFlight) => ENABLED recordTick(s))
    /\ [][\A s \in Sessions :
             (Ran("tick", s) /\ ~sess[s].isStopped /\ visibilityState = "visible") =>
                 CopiesIn(Heartbeat(s), net') = CopiesIn(Heartbeat(s), net) + 1]_vars

\* A tick has just sent a heartbeat while an earlier one is still unanswered.
C17_Witness ==
    /\ task.op = "tick"
    /\ task.sends = 1
    /\ sess[task.sess].kind = "record"
    /\ CopiesIn(Heartbeat(task.sess), net) >= 2

(***************************************************************************)
(* C18: stop() on the handle of one session changes only the stop flag of  *)
(* that session: every other session (of the same or of another instance)  *)
(* keeps its flag, timer and id, and no request is issued or dropped; a    *)
(* tick of a session changes no other session, and a tick of a visible,    *)
(* non-stopped session sends its heartbeat whatever the other sessions'    *)
(* flags are.                                                              *)
(***************************************************************************)
C18_SessionsIndependent ==
    [][\A s \in Sessions :
          /\ Ran("stop", s) =>
                /\ \A t \in Sessions \ {s} : sess'[t] = sess[t]
                /\ net' = net
                /\ instances' = instances
          /\ Ran("tick", s) =>
                /\ \A t \in Sessions \ {s} : sess'[t] = sess[t]
                /\ (~sess[s].isStopped /\ visibilityState = "visible") =>
                      IssuesOnly(Heartbeat(s))]_vars

\* A session ticks and sends while a session of the other instance, whose
\* timer is still there, is stopped.
C18_Witness ==
    /\ task.op = "tick"
    /\ task.sends = 1
    /\ \E s \in Sessions :
          /\ s # task.sess
          /\ s \in RealSessions
          /\ sess[s].inst # sess[task.sess].inst
          /\ sess[s].isStopped
          /\ sess[s].intervals = 1

(***************************************************************************)
(* C19: stop() while the createRecord request of record() is in flight     *)
(* leaves that request in flight; when the request of a stopped session    *)
(* then succeeds with a normal id the timer is created and onCreated (if   *)
(* given) is called with the id; the first tick of that timer cancels it   *)
(* without sending, and no updateRecord request is issued for the session, *)
(* neither before the create settles nor once the session is stopped.      *)
(***************************************************************************)
C19_StopBeforeCreateSettles ==
    /\ [](\A s \in RecordSessions :
             sess[s].pc = "pending" =>
                 /\ CreateInFlight(s)
                 /\ \A r \in Requests : r.sess = s => r.body.query = "createRecord")
    /\ [][\A s \in RecordSessions :
             /\ (Ran("stop", s) /\ sess[s].pc = "pending") =>
                   /\ net' = net
                   /\ sess'[s] = [sess[s] EXCEPT !.isStopped = TRUE]
             /\ (Ran("settle", s) /\ task'.req.body.query = "createRecord"
                   /\ sess[s].isStopped
                   /\ Clean(task'.resp) /\ task'.resp.id = NormalId) =>
                   /\ sess'[s].intervals = 1 /\ sess'[s].cleared = 0
                   /\ sess'[s].recordId = NormalId
                   /\ task'.delivered =
                         IF task'.req.next.userNext THEN <<NormalId>> ELSE <<>>
             /\ sess[s].isStopped =>
                   /\ ~IssuedFor(s, "updateRecord")
                   /\ Ran("tick", s) =>
                         /\ net' = net
                         /\ sess'[s].intervals = 0 /\ sess'[s].cleared = 1]_vars

\* The create of a session stopped earlier has just succeeded: the timer
\* exists and onCreated got the id.
C19_Witness ==
    /\ task.op = "settle"
    /\ task.req.body.query = "createRecord"
    /\ task.delivered = <<NormalId>>
    /\ sess[task.sess].isStopped
    /\ sess[task.sess].intervals = 1

(***************************************************************************)
(* C20: when an updateRecord request settles, whatever the response, no    *)
(* session changes (stop flag, timer, id, state) and no request is issued: *)
(* the settled request leaves the requests in flight and nothing replaces  *)
(* it; a failure (network failure, non-success status or error list) is    *)
(* logged once; the timer of the session can fire as before and a tick of  *)
(* the visible, non-stopped session issues a new updateRecord.             *)
(***************************************************************************)
C20_FailedHeartbeatIsDropped ==
    /\ [](\A s \in RealSessions :
             (sess[s].intervals > 0 /\ Ready /\ InFlight < MaxInFlight) =>
                 ENABLED (recordTick(s) \/ updateRecordTick(s)))
    /\ [][\A s \in Sessions :
             /\ (Ran("settle", s) /\ task'.req.body.query = "updateRecord") =>
                   /\ sess' = sess
                   /\ BagIn(task'.req, net)
                   /\ net' (+) SetToBag({task'.req}) = net
                   /\ task'.sends = 0
                   /\ task'.errors = (IF Clean(task'.resp) THEN 0 ELSE 1)
                   /\ task'.uncaught = 0
             /\ (Ran("tick", s) /\ Status(s) = "Active" /\ visibilityState = "visible") =>
                   IssuesOnly(Heartbeat(s))]_vars

\* A heartbeat has just failed on a non-success status; the session is
\* still Active with its timer.
C20_Witness ==
    /\ task.op = "settle"
    /\ task.req.body.query = "updateRecord"
    /\ task.resp.net /\ ~task.resp.ok
    /\ task.errors = 1
    /\ Status(task.sess) = "Active"
    /\ sess[task.sess].intervals = 1

====
